---- MODULE Spec2Model ----
(***************************************************************************)
(* Gesture handling of the FTS521 touch controller driver                  *)
(* (drivers/input/touchscreen/fts521/fts_lib/ftsGesture.c).                *)
(*                                                                         *)
(* The module state (gesture_mask, refreshGestureMask, gestureMask_mutex)  *)
(* and the gesture coordinates (gesture_coordinates_x/y,                   *)
(* gesture_coords_reported) are modelled together with the collaborators   *)
(* the file calls (setFeatures, setScanMode, fts_disableInterrupt,         *)
(* fts_enableInterrupt, fts_writeReadU8UX), whose outcome is a             *)
(* nondeterministic choice.  Every function of the file is a sequence *)
(* of steps of a calling thread; a step is one access to shared state.     *)
(* C ints are 32-bit two's complement values; array indices are the C      *)
(* indices (from 0).                                                       *)
(***************************************************************************)
EXTENDS Integers, Sequences, FiniteSets, TLC

(* ---- bounds of the model ---- *)
\* number of bytes of the gesture mask (GESTURE_MASK_SIZE of ftsSoftware.h)
GESTURE_MASK_SIZE == 2
\* number of bits kept of every byte of the gesture mask (8 in the driver)
ByteBits == 1
\* number of distinct error values a collaborator can return
MaxErr == 1
\* capacity of the coordinate arrays (GESTURE_MAX_COORDS_PAIRS_REPORT of
\* ftsSoftware.h)
GESTURE_MAX_COORDS_PAIRS_REPORT == 2

(* ---- program constants (values of ftsError.h and ftsSoftware.h) ---- *)
OK == 0
\* (int)0x80000006, (int)0x80000200 and (int)0x80000300 of ftsError.h
ERROR_OP_NOT_ALLOW == -2147483642
ERROR_DISABLE_INTER == -2147483136
ERROR_ENABLE_INTER == -2147482880
FEAT_DISABLE == 0
FEAT_ENABLE == 1
\* INT_MIN, the int whose only set bit is the sign bit
IntMin == -2147483647 - 1
SizeofInt == 4
\* event tags of ftsSoftware.h
EVT_ID_USER_REPORT == 83
EVT_TYPE_USER_GESTURE == 2

Threads == {1, 2}
Byte == 0 .. (2 ^ ByteBits - 1)
Idx == 0 .. (GESTURE_MASK_SIZE - 1)

(* ---- C operators on bit patterns ---- *)
RECURSIVE BitOr(_, _)
BitOr(a, b) ==
  IF a = 0 THEN b
  ELSE IF b = 0 THEN a
  ELSE (IF a % 2 = 1 \/ b % 2 = 1 THEN 1 ELSE 0) + 2 * BitOr(a \div 2, b \div 2)

RECURSIVE BitAnd(_, _)
BitAnd(a, b) ==
  IF a = 0 \/ b = 0 THEN 0
  ELSE (IF a % 2 = 1 /\ b % 2 = 1 THEN 1 ELSE 0) + 2 * BitAnd(a \div 2, b \div 2)

RECURSIVE BitXor(_, _)
BitXor(a, b) ==
  IF a = 0 THEN b
  ELSE IF b = 0 THEN a
  ELSE (IF (a % 2) # (b % 2) THEN 1 ELSE 0) + 2 * BitXor(a \div 2, b \div 2)

\* a | b on C ints: the low 31 bits and the sign bit
Low31(x) == IF x < 0 THEN x - IntMin ELSE x
IntOr(a, b) ==
  LET lo == BitOr(Low31(a), Low31(b))
  IN  IF a < 0 \/ b < 0 THEN IntMin + lo ELSE lo

\* "x < OK" for a C int
IsErr(x) == x < OK

\* the error values a collaborator may return: negative ints
ErrVal(k) == IntMin + k
CollabErrors == { ErrVal(k) : k \in 1 .. MaxErr }
\* everything a collaborator may return, by the convention of the library
\* ("OK if success or an error code"): OK or a negative error code
CollabResults == {OK} \cup CollabErrors

(* ---- arguments ---- *)
ZeroMask == [i \in Idx |-> 0]
NoBytes == [i \in {} |-> 0]
NULL == [null |-> TRUE, bytes |-> NoBytes]
Buf(b) == [null |-> FALSE, bytes |-> b]
\* a caller's (mask, size) pairs: a buffer of size bytes or NULL; one
\* oversized request per kind, its content is never read
MaskArgs(s) ==
  IF s <= GESTURE_MASK_SIZE
  THEN {NULL} \cup { Buf(b) : b \in [0 .. (s - 1) -> Byte] }
  ELSE {NULL, Buf([i \in 0 .. (s - 1) |-> 1])}
Sizes == 0 .. (GESTURE_MASK_SIZE + 1)
EnValues == {FEAT_DISABLE, FEAT_ENABLE, 2}
ReloadValues == {0, 1, 2}

VARIABLES
  gesture_mask,        \* static u8 gesture_mask[GESTURE_MASK_SIZE]
  refreshGestureMask,  \* static u8 refreshGestureMask
  gestureMask_mutex,   \* 0 = free, otherwise the thread that holds it
  fw_mask,             \* the mask the firmware accepted last (setFeatures)
  irq_enabled,         \* state of the interrupt line
  pc,                  \* position of every thread
  op,                  \* function the host called
  caller,              \* who called enableGesture: "host" or "enterGestureMode"
  mask,                \* argument mask of the running function
  size,                \* argument size of the running function
  en,                  \* argument en of updateGestureMask / reload
  i,                   \* local i (res of isAnyGestureActive)
  res,                 \* local res
  retval,              \* value returned to the host
  calls,               \* collaborator calls of the running host call
  pre,                 \* gesture_mask when the running call started and,
                       \* later, when it took the mutex
  gesture_coordinates_x,   \* u16 gesture_coordinates_x[...]
  gesture_coordinates_y,   \* u16 gesture_coordinates_y[...]
  gesture_coords_reported, \* int gesture_coords_reported
  event,               \* argument event of readGestureCoords
  address,             \* local address of readGestureCoords
  val,                 \* local buffer val: the bytes the read stored
  pre_coords           \* the coordinate arrays when the running call started

vars == <<gesture_mask, refreshGestureMask, gestureMask_mutex, fw_mask,
          irq_enabled, pc, op, caller, mask, size, en, i, res, retval,
          calls, pre, gesture_coordinates_x, gesture_coordinates_y,
          gesture_coords_reported, event, address, val, pre_coords>>

\* the coordinate buffer and the frame of readGestureCoords
coords == <<gesture_coordinates_x, gesture_coordinates_y,
            gesture_coords_reported>>
coordFrame == <<event, address, val, pre_coords>>
PairIdx == 0 .. (GESTURE_MAX_COORDS_PAIRS_REPORT - 1)
ZeroCoords == [k \in PairIdx |-> 0]
NoEvent == [k \in {} |-> 0]

shared == <<gesture_mask, refreshGestureMask, gestureMask_mutex, irq_enabled>>

\* the state after load of a build whose GESTURE_MASK_SIZE is n
InitBuild(n) ==
  /\ gesture_mask = [k \in 0 .. (n - 1) |-> 0]
  /\ refreshGestureMask = 0
  /\ gestureMask_mutex = 0
  /\ fw_mask = ZeroMask
  /\ irq_enabled = TRUE
  /\ pc = [t \in Threads |-> "idle"]
  /\ op = [t \in Threads |-> "none"]
  /\ caller = [t \in Threads |-> "host"]
  /\ mask = [t \in Threads |-> NULL]
  /\ size = [t \in Threads |-> 0]
  /\ en = [t \in Threads |-> 0]
  /\ i = [t \in Threads |-> 0]
  /\ res = [t \in Threads |-> OK]
  /\ retval = [t \in Threads |-> OK]
  /\ calls = [t \in Threads |-> <<>>]
  /\ pre = [t \in Threads |-> ZeroMask]
  /\ gesture_coordinates_x = ZeroCoords
  /\ gesture_coordinates_y = ZeroCoords
  /\ gesture_coords_reported = ERROR_OP_NOT_ALLOW
  /\ event = [t \in Threads |-> NoEvent]
  /\ address = [t \in Threads |-> 0]
  /\ val = [t \in Threads |-> NoBytes]
  /\ pre_coords = [t \in Threads |-> <<ZeroCoords, ZeroCoords>>]

Init == InitBuild(GESTURE_MASK_SIZE)

\* sizeof(gesture_mask): the GESTURE_MASK_SIZE the build was compiled with
MaskSize == Cardinality(DOMAIN gesture_mask)

\* entry of a host call: the frame gets its arguments
Enter(t, o, m, s, e, p) ==
  /\ pc[t] = "idle"
  /\ op' = [op EXCEPT ![t] = o]
  /\ caller' = [caller EXCEPT ![t] = "host"]
  /\ mask' = [mask EXCEPT ![t] = m]
  /\ size' = [size EXCEPT ![t] = s]
  /\ en' = [en EXCEPT ![t] = e]
  /\ i' = [i EXCEPT ![t] = 0]
  /\ res' = [res EXCEPT ![t] = OK]
  /\ retval' = [retval EXCEPT ![t] = OK]
  /\ calls' = [calls EXCEPT ![t] = <<>>]
  /\ pre' = [pre EXCEPT ![t] = gesture_mask]
  /\ pc' = [pc EXCEPT ![t] = p]
  /\ UNCHANGED shared

\* "return v": the function is done, its frame is still there
Return(t, v) ==
  /\ pc' = [pc EXCEPT ![t] = "done"]
  /\ retval' = [retval EXCEPT ![t] = v]
  /\ i' = [i EXCEPT ![t] = 0]
  /\ res' = [res EXCEPT ![t] = OK]

\* control is back in the host: the frame of the call is gone
returned(t) ==
  /\ pc[t] = "done"
  /\ pc' = [pc EXCEPT ![t] = "idle"]
  /\ op' = [op EXCEPT ![t] = "none"]
  /\ mask' = [mask EXCEPT ![t] = NULL]
  /\ size' = [size EXCEPT ![t] = 0]
  /\ en' = [en EXCEPT ![t] = 0]
  /\ retval' = [retval EXCEPT ![t] = OK]
  /\ calls' = [calls EXCEPT ![t] = <<>>]
  /\ pre' = [pre EXCEPT ![t] = ZeroMask]
  /\ event' = [event EXCEPT ![t] = NoEvent]
  /\ address' = [address EXCEPT ![t] = 0]
  /\ val' = [val EXCEPT ![t] = NoBytes]
  /\ pre_coords' = [pre_coords EXCEPT ![t] = <<ZeroCoords, ZeroCoords>>]
  /\ UNCHANGED <<shared, caller, i, res, coords>>

\* move to position p, locals kept
Goto(t, p) ==
  /\ pc' = [pc EXCEPT ![t] = p]
  /\ UNCHANGED <<i, res, retval>>

\* a collaborator call fn(arg) that returned r, appended to the thread's log
Logged(t, fn, arg, r) ==
  calls' = [calls EXCEPT ![t] = Append(@, [fn |-> fn, arg |-> arg, r |-> r])]

(* ======================= updateGestureMask ========================== *)

\* a faulty variant of EnableByte: the byte is assigned, not OR-ed
EnableByte_assign(g, m) == m

\* line 84-86: gesture_mask[i] | mask[i]
EnableByte(g, m) == BitOr(g, m)

\* a faulty variant of DisableByte: the XOR is kept, the AND is lost
DisableByte_xor(g, m) == BitXor(g, m)

\* line 102-105: temp = gesture_mask[i] ^ mask[i]; temp & gesture_mask[i]
DisableByte(g, m) == BitAnd(BitXor(g, m), g)

\* lines 74-76, 117-137: the argument checks
UpdateArgsValid(m, s, e) ==
  /\ ~m.null
  /\ s <= GESTURE_MASK_SIZE
  /\ e \in {FEAT_ENABLE, FEAT_DISABLE}

updateGestureMask_call(t, m, s, e) ==
  Enter(t, "updateGestureMask", m, s, e, "ugm_check")

ugm_check(t) ==
  /\ pc[t] = "ugm_check"
  /\ IF UpdateArgsValid(mask[t], size[t], en[t])
     THEN Goto(t, "ugm_lock")
     ELSE Return(t, ERROR_OP_NOT_ALLOW)
  /\ UNCHANGED <<shared, op, caller, mask, size, en, calls, pre>>

\* mutex_lock(&gestureMask_mutex), lines 77 and 96
ugm_lock(t) ==
  /\ pc[t] = "ugm_lock"
  /\ gestureMask_mutex = 0
  /\ gestureMask_mutex' = t
  /\ pc' = [pc EXCEPT ![t] = "ugm_loop"]
  /\ i' = [i EXCEPT ![t] = 0]
  /\ pre' = [pre EXCEPT ![t] = gesture_mask]
  /\ UNCHANGED <<gesture_mask, refreshGestureMask, irq_enabled,
                 op, caller, mask, size, en, res, retval, calls>>

\* one iteration of the for loops of lines 83-86 and 101-109
ugm_loop(t) ==
  /\ pc[t] = "ugm_loop"
  /\ i[t] < size[t]
  /\ gesture_mask' =
       [gesture_mask EXCEPT ![i[t]] =
          IF en[t] = FEAT_ENABLE
          THEN EnableByte(@, mask[t].bytes[i[t]])
          ELSE DisableByte(@, mask[t].bytes[i[t]])]
  /\ i' = [i EXCEPT ![t] = @ + 1]
  /\ UNCHANGED <<refreshGestureMask, gestureMask_mutex, irq_enabled,
                 pc, op, caller, mask, size, en, res, retval, calls, pre>>

\* refreshGestureMask = 1, lines 88 and 114
ugm_flag(t) ==
  /\ pc[t] = "ugm_loop"
  /\ i[t] >= size[t]
  /\ refreshGestureMask' = 1
  /\ Goto(t, "ugm_unlock")
  /\ UNCHANGED <<gesture_mask, gestureMask_mutex, irq_enabled,
                 op, caller, mask, size, en, calls, pre>>

\* mutex_unlock and return OK, lines 93-94 and 115-116
ugm_unlock(t) ==
  /\ pc[t] = "ugm_unlock"
  /\ gestureMask_mutex' = 0
  /\ Return(t, OK)
  /\ UNCHANGED <<gesture_mask, refreshGestureMask, irq_enabled,
                 op, caller, mask, size, en, calls, pre>>

(* ================= enableGesture / disableGesture =================== *)

\* line 157 and line 204: size <= GESTURE_MASK_SIZE
SizeValid(s) == s <= MaskSize

\* what setFeatures reads through pointer = (u8 *)&i with int i = 0
\* (lines 218-223): the bytes of i are zero, bytes past the int are whatever
\* follows it in memory
AddrOfZeroInt ==
  { p \in [DOMAIN gesture_mask -> Byte] :
      \A k \in DOMAIN gesture_mask : k < SizeofInt => p[k] = 0 }

\* the payloads disableGesture can hand to setFeatures, lines 216-223
DisablePayloads(m, g) == IF m.null THEN AddrOfZeroInt ELSE {g}

\* lines 166-172 and 224-232: res after setFeatures returned r
ResAfter(r) == IF IsErr(r) THEN r ELSE OK

enableGesture_call(t, m, s) ==
  Enter(t, "enableGesture", m, s, 0, "eg_check")

eg_check(t) ==
  /\ pc[t] = "eg_check"
  /\ IF SizeValid(size[t])
     THEN Goto(t, "eg_lock")
     ELSE Return(t, ERROR_OP_NOT_ALLOW)
  /\ UNCHANGED <<shared, op, caller, mask, size, en, calls, pre>>

\* mutex_lock, line 158
eg_lock(t) ==
  /\ pc[t] = "eg_lock"
  /\ gestureMask_mutex = 0
  /\ gestureMask_mutex' = t
  /\ pc' = [pc EXCEPT ![t] = "eg_loop"]
  /\ i' = [i EXCEPT ![t] = 0]
  /\ pre' = [pre EXCEPT ![t] = gesture_mask]
  /\ UNCHANGED <<gesture_mask, refreshGestureMask, irq_enabled,
                 op, caller, mask, size, en, res, retval, calls>>

\* one iteration of the loop of lines 159-161
eg_loop(t) ==
  /\ pc[t] = "eg_loop"
  /\ ~mask[t].null
  /\ i[t] < size[t]
  /\ gesture_mask' =
       [gesture_mask EXCEPT ![i[t]] = EnableByte(@, mask[t].bytes[i[t]])]
  /\ i' = [i EXCEPT ![t] = @ + 1]
  /\ UNCHANGED <<refreshGestureMask, gestureMask_mutex, irq_enabled,
                 pc, op, caller, mask, size, en, res, retval, calls, pre>>

\* res = setFeatures(FEAT_SEL_GESTURE, gesture_mask, GESTURE_MASK_SIZE),
\* lines 164-172
eg_send(t, r) ==
  /\ pc[t] = "eg_loop"
  /\ mask[t].null \/ i[t] >= size[t]
  /\ Logged(t, "setFeatures", gesture_mask, r)
  /\ res' = [res EXCEPT ![t] = ResAfter(r)]
  /\ pc' = [pc EXCEPT ![t] = "eg_unlock"]
  /\ UNCHANGED <<gesture_mask, refreshGestureMask, gestureMask_mutex,
                 irq_enabled, op, caller, mask, size, en, i, retval, pre>>

\* an END that returns the error of setFeatures without mutex_unlock
eg_unlock_leak(t) ==
  /\ pc[t] = "eg_unlock"
  /\ gestureMask_mutex' = IF IsErr(res[t]) THEN gestureMask_mutex ELSE 0
  /\ IF caller[t] = "host"
     THEN Return(t, res[t]) /\ UNCHANGED caller
     ELSE /\ pc' = [pc EXCEPT ![t] = "egm_pushed"]
          /\ caller' = [caller EXCEPT ![t] = "host"]
          /\ i' = [i EXCEPT ![t] = 0]
          /\ UNCHANGED <<res, retval>>
  /\ UNCHANGED <<gesture_mask, refreshGestureMask, irq_enabled,
                 op, mask, size, en, calls, pre>>

\* END: mutex_unlock; return res, lines 174-176; the value goes to the host
\* or to line 264 of enterGestureMode
eg_unlock(t) ==
  /\ pc[t] = "eg_unlock"
  /\ gestureMask_mutex' = 0
  /\ IF caller[t] = "host"
     THEN Return(t, res[t]) /\ UNCHANGED caller
     ELSE /\ pc' = [pc EXCEPT ![t] = "egm_pushed"]
          /\ caller' = [caller EXCEPT ![t] = "host"]
          /\ i' = [i EXCEPT ![t] = 0]
          /\ UNCHANGED <<res, retval>>
  /\ UNCHANGED <<gesture_mask, refreshGestureMask, irq_enabled,
                 op, mask, size, en, calls, pre>>

disableGesture_call(t, m, s) ==
  Enter(t, "disableGesture", m, s, 0, "dg_check")

dg_check(t) ==
  /\ pc[t] = "dg_check"
  /\ IF SizeValid(size[t])
     THEN Goto(t, "dg_lock")
     ELSE Return(t, ERROR_OP_NOT_ALLOW)
  /\ UNCHANGED <<shared, op, caller, mask, size, en, calls, pre>>

\* mutex_lock, line 205
dg_lock(t) ==
  /\ pc[t] = "dg_lock"
  /\ gestureMask_mutex = 0
  /\ gestureMask_mutex' = t
  /\ pc' = [pc EXCEPT ![t] = "dg_loop"]
  /\ i' = [i EXCEPT ![t] = 0]
  /\ pre' = [pre EXCEPT ![t] = gesture_mask]
  /\ UNCHANGED <<gesture_mask, refreshGestureMask, irq_enabled,
                 op, caller, mask, size, en, res, retval, calls>>

\* one iteration of the loop of lines 207-214
dg_loop(t) ==
  /\ pc[t] = "dg_loop"
  /\ ~mask[t].null
  /\ i[t] < size[t]
  /\ gesture_mask' =
       [gesture_mask EXCEPT ![i[t]] = DisableByte(@, mask[t].bytes[i[t]])]
  /\ i' = [i EXCEPT ![t] = @ + 1]
  /\ UNCHANGED <<refreshGestureMask, gestureMask_mutex, irq_enabled,
                 pc, op, caller, mask, size, en, res, retval, calls, pre>>

\* res = setFeatures(FEAT_SEL_GESTURE, pointer, GESTURE_MASK_SIZE),
\* lines 216-232
dg_send(t, r) ==
  /\ pc[t] = "dg_loop"
  /\ mask[t].null \/ i[t] >= size[t]
  /\ \E payload \in DisablePayloads(mask[t], gesture_mask) :
       Logged(t, "setFeatures", payload, r)
  /\ res' = [res EXCEPT ![t] = ResAfter(r)]
  /\ pc' = [pc EXCEPT ![t] = "dg_unlock"]
  /\ UNCHANGED <<gesture_mask, refreshGestureMask, gestureMask_mutex,
                 irq_enabled, op, caller, mask, size, en, i, retval, pre>>

\* END: mutex_unlock; return res, lines 234-236
dg_unlock(t) ==
  /\ pc[t] = "dg_unlock"
  /\ gestureMask_mutex' = 0
  /\ Return(t, res[t])
  /\ UNCHANGED <<gesture_mask, refreshGestureMask, irq_enabled,
                 op, caller, mask, size, en, calls, pre>>

(* ========================= enterGestureMode ========================= *)

\* a test that takes every non-zero reload as a request to push
NeedPush_nonzero(reload, flag) == reload # 0 \/ flag = 1

\* line 263: reload == 1 || refreshGestureMask == 1
NeedPush(reload, flag) == reload = 1 \/ flag = 1

\* line 260: res | ERROR_DISABLE_INTER
DisableFailure(r) == IntOr(r, ERROR_DISABLE_INTER)

\* a faulty variant of FinalResult: a failed fts_enableInterrupt is ignored
FinalResult_ignored(r, ret) == r

\* lines 287-295: the value returned once fts_enableInterrupt returned ret
FinalResult(r, ret) ==
  IF IsErr(ret) THEN IntOr(r, IntOr(ret, ERROR_ENABLE_INTER)) ELSE r

\* a faulty variant of ScanResult: res = OK is reached on failure too
ScanResult_lost(r) == OK

\* lines 276-284: res after setScanMode returned r
ScanResult(r) == IF IsErr(r) THEN r ELSE OK

\* the interrupt line after fts_disableInterrupt / fts_enableInterrupt
\* returned r: a failed call leaves it as it was
IrqAfter(old, target, r) == IF IsErr(r) THEN old ELSE target

enterGestureMode_call(t, reload) ==
  Enter(t, "enterGestureMode", NULL, 0, reload, "egm_disable")

\* a faulty variant of egm_disable: a failure goes to END instead of returning
egm_disable_gotoend(t, r) ==
  /\ pc[t] = "egm_disable"
  /\ Logged(t, "fts_disableInterrupt", NoBytes, r)
  /\ irq_enabled' = IrqAfter(irq_enabled, FALSE, r)
  /\ pc' = [pc EXCEPT ![t] = IF IsErr(r) THEN "egm_end" ELSE "egm_test"]
  /\ res' = [res EXCEPT ![t] = IF IsErr(r) THEN DisableFailure(r) ELSE r]
  /\ UNCHANGED <<i, retval>>
  /\ UNCHANGED <<gesture_mask, refreshGestureMask, gestureMask_mutex,
                 op, caller, mask, size, en, pre>>

\* res = fts_disableInterrupt(), lines 256-261
egm_disable(t, r) ==
  /\ pc[t] = "egm_disable"
  /\ Logged(t, "fts_disableInterrupt", NoBytes, r)
  /\ irq_enabled' = IrqAfter(irq_enabled, FALSE, r)
  /\ IF IsErr(r)
     THEN Return(t, DisableFailure(r))
     ELSE /\ pc' = [pc EXCEPT ![t] = "egm_test"]
          /\ res' = [res EXCEPT ![t] = r]
          /\ UNCHANGED <<i, retval>>
  /\ UNCHANGED <<gesture_mask, refreshGestureMask, gestureMask_mutex,
                 op, caller, mask, size, en, pre>>

\* the test of line 263 and, when it holds, the call enableGesture(NULL, 0)
\* of line 264; the flag is read without the mutex
egm_test(t) ==
  /\ pc[t] = "egm_test"
  /\ IF NeedPush(en[t], refreshGestureMask)
     THEN /\ pc' = [pc EXCEPT ![t] = "eg_check"]
          /\ caller' = [caller EXCEPT ![t] = "enterGestureMode"]
          /\ mask' = [mask EXCEPT ![t] = NULL]
          /\ size' = [size EXCEPT ![t] = 0]
     ELSE /\ pc' = [pc EXCEPT ![t] = "egm_scan"]
          /\ UNCHANGED <<caller, mask, size>>
  /\ UNCHANGED <<shared, op, en, i, res, retval, calls, pre>>

\* a faulty variant of egm_pushed: a failed push returns at once, END is skipped
egm_pushed_return(t) ==
  /\ pc[t] = "egm_pushed"
  /\ IF IsErr(res[t])
     THEN /\ Return(t, res[t])
          /\ UNCHANGED refreshGestureMask
     ELSE /\ pc' = [pc EXCEPT ![t] = "egm_scan"]
          /\ refreshGestureMask' = 0
          /\ UNCHANGED <<i, res, retval>>
  /\ UNCHANGED <<gesture_mask, gestureMask_mutex, irq_enabled,
                 op, caller, mask, size, en, calls, pre>>

\* a faulty variant of egm_pushed: the flag is cleared before res is tested
egm_pushed_clears(t) ==
  /\ pc[t] = "egm_pushed"
  /\ refreshGestureMask' = 0
  /\ pc' = [pc EXCEPT ![t] = IF IsErr(res[t]) THEN "egm_end" ELSE "egm_scan"]
  /\ UNCHANGED <<gesture_mask, gestureMask_mutex, irq_enabled,
                 op, caller, mask, size, en, i, res, retval, calls, pre>>

\* lines 265-273: after enableGesture returned res; the flag is written
\* without the mutex
egm_pushed(t) ==
  /\ pc[t] = "egm_pushed"
  /\ IF IsErr(res[t])
     THEN /\ pc' = [pc EXCEPT ![t] = "egm_end"]
          /\ UNCHANGED refreshGestureMask
     ELSE /\ pc' = [pc EXCEPT ![t] = "egm_scan"]
          /\ refreshGestureMask' = 0
  /\ UNCHANGED <<gesture_mask, gestureMask_mutex, irq_enabled,
                 op, caller, mask, size, en, i, res, retval, calls, pre>>

\* res = setScanMode(SCAN_MODE_LOW_POWER, 0), lines 276-284
egm_scan(t, r) ==
  /\ pc[t] = "egm_scan"
  /\ Logged(t, "setScanMode", NoBytes, r)
  /\ res' = [res EXCEPT ![t] = ScanResult(r)]
  /\ pc' = [pc EXCEPT ![t] = "egm_end"]
  /\ UNCHANGED <<shared, op, caller, mask, size, en, i, retval, pre>>

\* END: ret = fts_enableInterrupt() ... return res, lines 285-295
egm_end(t, r) ==
  /\ pc[t] = "egm_end"
  /\ Logged(t, "fts_enableInterrupt", NoBytes, r)
  /\ irq_enabled' = IrqAfter(irq_enabled, TRUE, r)
  /\ Return(t, FinalResult(res[t], r))
  /\ UNCHANGED <<gesture_mask, refreshGestureMask, gestureMask_mutex,
                 op, caller, mask, size, en, pre>>

(* ======================== isAnyGestureActive ======================== *)

\* a read of gesture_mask[k]: past the end of the array it yields any byte
ReadMask(g, k) == IF k \in DOMAIN g THEN {g[k]} ELSE Byte

\* a faulty variant of ScanContinues: the scan stops one byte early
ScanContinues_short(k) == k < GESTURE_MASK_SIZE - 2

\* line 307: res < (GESTURE_MASK_SIZE - 1); && reads the mask only then
ScanContinues(k) == k < GESTURE_MASK_SIZE - 1

\* lines 312-321
ActiveResult(b) == IF b # 0 THEN FEAT_ENABLE ELSE FEAT_DISABLE

isAnyGestureActive_call(t) ==
  Enter(t, "isAnyGestureActive", NULL, 0, 0, "iag_loop")

\* one evaluation of the while condition of line 307, and res++ when it holds
iag_loop(t) ==
  /\ pc[t] = "iag_loop"
  /\ IF ScanContinues(i[t])
     THEN \E b \in ReadMask(gesture_mask, i[t]) :
            IF b = 0
            THEN /\ i' = [i EXCEPT ![t] = @ + 1]
                 /\ UNCHANGED pc
            ELSE /\ pc' = [pc EXCEPT ![t] = "iag_test"]
                 /\ UNCHANGED i
     ELSE /\ pc' = [pc EXCEPT ![t] = "iag_test"]
          /\ UNCHANGED i
  /\ UNCHANGED <<shared, op, caller, mask, size, en, res, retval, calls, pre>>

\* the read of gesture_mask[res] of line 312 and the return
iag_test(t) ==
  /\ pc[t] = "iag_test"
  /\ \E b \in ReadMask(gesture_mask, i[t]) :
       Return(t, ActiveResult(b))
  /\ UNCHANGED <<shared, op, caller, mask, size, en, calls, pre>>

(* ========================= readGestureCoords ======================== *)

\* the events the interrupt path hands over: byte 0 and 1 are the tags,
\* byte 3 and 4 the offset in the frame buffer, byte 5 the number of pairs
EventBytes(id, ty, lo, hi, n) ==
  [k \in 0 .. 5 |->
     CASE k = 0 -> id [] k = 1 -> ty [] k = 3 -> lo [] k = 4 -> hi
       [] k = 5 -> n [] OTHER -> 0]
PairCounts ==
  (0 .. (GESTURE_MAX_COORDS_PAIRS_REPORT + 2))
    \cup {GESTURE_MAX_COORDS_PAIRS_REPORT + 5, 255}
Events ==
  { EventBytes(id, ty, lo, hi, n) :
      id \in {EVT_ID_USER_REPORT, 19}, ty \in {EVT_TYPE_USER_GESTURE, 1},
      lo \in {0, 16}, hi \in {0, 1}, n \in PairCounts }

\* what the frame buffer can hold: a byte pattern, started at different
\* places (0x34 0x01 0xFF 0xF1 0x00 0x10 0x80 0x0F)
FrameSeed == <<52, 1, 255, 241, 0, 16, 128, 15>>
FrameByte(f, k) == FrameSeed[((k + f) % 8) + 1]
Frames == {0, 1, 3}
\* the contents fts_writeReadU8UX can store in val for a read of len bytes
Payloads(len) == { [k \in 0 .. (len - 1) |-> FrameByte(f, k)] : f \in Frames }

\* lines 343-344
EventValid(ev) ==
  ev[0] = EVT_ID_USER_REPORT /\ ev[1] = EVT_TYPE_USER_GESTURE

\* line 345: (event[4] << 8) | event[3]
EventAddress(ev) == BitOr(ev[4] * 256, ev[3])

\* a clamp that lets one pair too many through
Clamped_late(n) ==
  IF n > GESTURE_MAX_COORDS_PAIRS_REPORT + 1
  THEN GESTURE_MAX_COORDS_PAIRS_REPORT + 1
  ELSE n

\* lines 348-356: the value of gesture_coords_reported after the test
Clamped(n) ==
  IF n > GESTURE_MAX_COORDS_PAIRS_REPORT
  THEN GESTURE_MAX_COORDS_PAIRS_REPORT
  ELSE n

\* line 362: gesture_coords_reported * 2 * 2
ReadLength(n) == n * 2 * 2

\* a decode that keeps the high nibble of the second byte
CoordX_wide(v, k) ==
  BitOr(BitAnd(v[k * 2 + 1], 255) * 256, BitAnd(v[k * 2], 255))

\* lines 377-379: (val[i * 2 + 1] & 0x0F) << 8 | (val[i * 2] & 0xFF)
CoordX(v, k) ==
  BitOr(BitAnd(v[k * 2 + 1], 15) * 256, BitAnd(v[k * 2], 255))

\* lines 380-385: the same with offset gesture_coords_reported * 2
CoordY(v, n, k) ==
  BitOr(BitAnd(v[n * 2 + k * 2 + 1], 15) * 256, BitAnd(v[n * 2 + k * 2], 255))

\* the frame variables of the functions of the gesture mask
hostFrame == <<op, caller, mask, size, en, calls, pre>>

readGestureCoords_call(t, ev) ==
  /\ Enter(t, "readGestureCoords", NULL, 0, 0, "rgc_check")
  /\ event' = [event EXCEPT ![t] = ev]
  /\ pre_coords' =
       [pre_coords EXCEPT ![t] = <<gesture_coordinates_x, gesture_coordinates_y>>]
  /\ UNCHANGED <<coords, address, val>>

\* lines 343-347 and 391-397
rgc_check(t) ==
  /\ pc[t] = "rgc_check"
  /\ IF EventValid(event[t])
     THEN /\ address' = [address EXCEPT ![t] = EventAddress(event[t])]
          /\ gesture_coords_reported' = event[t][5]
          /\ Goto(t, "rgc_clamp")
     ELSE /\ Return(t, ERROR_OP_NOT_ALLOW)
          /\ UNCHANGED <<address, gesture_coords_reported>>
  /\ UNCHANGED <<shared, hostFrame, gesture_coordinates_x,
                 gesture_coordinates_y, event, val, pre_coords>>

\* lines 348-356
rgc_clamp(t) ==
  /\ pc[t] = "rgc_clamp"
  /\ gesture_coords_reported' = Clamped(gesture_coords_reported)
  /\ Goto(t, "rgc_read")
  /\ UNCHANGED <<shared, hostFrame, gesture_coordinates_x,
                 gesture_coordinates_y, coordFrame>>

\* a read whose failure path leaves the count of the event in place
rgc_read_stale(t, r) ==
  /\ pc[t] = "rgc_read"
  /\ Logged(t, "fts_writeReadU8UX",
            <<address[t], ReadLength(gesture_coords_reported)>>, r)
  /\ IF IsErr(r)
     THEN /\ UNCHANGED gesture_coords_reported
          /\ Return(t, r)
          /\ UNCHANGED val
     ELSE /\ \E p \in Payloads(ReadLength(gesture_coords_reported)) :
               val' = [val EXCEPT ![t] = p]
          /\ Goto(t, "rgc_loop")
          /\ UNCHANGED gesture_coords_reported
  /\ UNCHANGED <<shared, op, caller, mask, size, en, pre,
                 gesture_coordinates_x, gesture_coordinates_y, event,
                 address, pre_coords>>

\* res = fts_writeReadU8UX(FTS_CMD_FRAMEBUFFER_R, BITS_16, address, val,
\* gesture_coords_reported * 2 * 2, DUMMY_FRAMEBUFFER), lines 361-373
rgc_read(t, r) ==
  /\ pc[t] = "rgc_read"
  /\ Logged(t, "fts_writeReadU8UX",
            <<address[t], ReadLength(gesture_coords_reported)>>, r)
  /\ IF IsErr(r)
     THEN /\ gesture_coords_reported' = ERROR_OP_NOT_ALLOW
          /\ Return(t, r)
          /\ UNCHANGED val
     ELSE /\ \E p \in Payloads(ReadLength(gesture_coords_reported)) :
               val' = [val EXCEPT ![t] = p]
          /\ Goto(t, "rgc_loop")
          /\ UNCHANGED gesture_coords_reported
  /\ UNCHANGED <<shared, op, caller, mask, size, en, pre,
                 gesture_coordinates_x, gesture_coordinates_y, event,
                 address, pre_coords>>

\* the for loop of lines 376-386, one pair a step, and the return of line 390
rgc_loop(t) ==
  /\ pc[t] = "rgc_loop"
  /\ IF i[t] < gesture_coords_reported
     THEN /\ gesture_coordinates_x' =
               [gesture_coordinates_x EXCEPT ![i[t]] = CoordX(val[t], i[t])]
          /\ gesture_coordinates_y' =
               [gesture_coordinates_y EXCEPT ![i[t]] =
                  CoordY(val[t], gesture_coords_reported, i[t])]
          /\ i' = [i EXCEPT ![t] = @ + 1]
          /\ UNCHANGED <<pc, res, retval>>
     ELSE /\ Return(t, OK)
          /\ UNCHANGED <<gesture_coordinates_x, gesture_coordinates_y>>
  /\ UNCHANGED <<shared, hostFrame, gesture_coords_reported, coordFrame>>

(* ========================= getGestureCoords ========================= *)

getGestureCoords_call(t) ==
  /\ Enter(t, "getGestureCoords", NULL, 0, 0, "ggc_read")
  /\ UNCHANGED <<coords, coordFrame>>

\* lines 411-416: *x and *y are the arrays themselves, the value returned
\* is gesture_coords_reported; no lock is taken
ggc_read(t) ==
  /\ pc[t] = "ggc_read"
  /\ Return(t, gesture_coords_reported)
  /\ UNCHANGED <<shared, hostFrame, coords, coordFrame>>

\* the steps of the interrupt path
DecodeStep(t) ==
  \/ /\ pc[t] = "idle"
     /\ \E ev \in Events : readGestureCoords_call(t, ev)
  \/ rgc_check(t)
  \/ rgc_clamp(t)
  \/ \E r \in CollabResults : rgc_read(t, r)
  \/ rgc_loop(t)

\* the steps of the host's query
QueryStep(t) ==
  \/ getGestureCoords_call(t)
  \/ ggc_read(t)

(* ======================= the system ================================= *)

\* the steps of each function after its entry
UpdateRun(t) ==
  \/ ugm_check(t)
  \/ ugm_lock(t)
  \/ ugm_loop(t)
  \/ ugm_flag(t)
  \/ ugm_unlock(t)

EnableRun(t) ==
  \/ eg_check(t)
  \/ eg_lock(t)
  \/ eg_loop(t)
  \/ \E r \in CollabResults : eg_send(t, r)
  \/ eg_unlock(t)

DisableRun(t) ==
  \/ dg_check(t)
  \/ dg_lock(t)
  \/ dg_loop(t)
  \/ \E r \in CollabResults : dg_send(t, r)
  \/ dg_unlock(t)

EnterRun(t) ==
  \/ \E r \in CollabResults : egm_disable(t, r)
  \/ egm_test(t)
  \/ egm_pushed(t)
  \/ \E r \in CollabResults : egm_scan(t, r)
  \/ \E r \in CollabResults : egm_end(t, r)

ActiveRun(t) ==
  \/ iag_loop(t)
  \/ iag_test(t)

\* the steps of the functions that work on the gesture mask
MaskStep(t) ==
  \/ /\ pc[t] = "idle"
     /\ \E s \in Sizes : \E m \in MaskArgs(s) : \E e \in EnValues :
          updateGestureMask_call(t, m, s, e)
  \/ UpdateRun(t)
  \/ /\ pc[t] = "idle"
     /\ \E s \in Sizes : \E m \in MaskArgs(s) : enableGesture_call(t, m, s)
  \/ EnableRun(t)
  \/ /\ pc[t] = "idle"
     /\ \E s \in Sizes : \E m \in MaskArgs(s) : disableGesture_call(t, m, s)
  \/ DisableRun(t)
  \/ \E reload \in ReloadValues : enterGestureMode_call(t, reload)
  \/ EnterRun(t)
  \/ isAnyGestureActive_call(t)
  \/ ActiveRun(t)

Step(t) ==
  \/ MaskStep(t) /\ UNCHANGED <<coords, coordFrame>>
  \/ returned(t)

(* The firmware side of setFeatures(FEAT_SEL_GESTURE, payload, size): the  *)
(* controller keeps the payload of a call that succeeded and keeps what it  *)
(* had when the call failed.                                               *)
FwAfter(fw, payload, r) == IF IsErr(r) THEN fw ELSE payload

Firmware(t) ==
  fw_mask' =
    IF Len(calls'[t]) > Len(calls[t])
       /\ calls'[t][Len(calls'[t])].fn = "setFeatures"
    THEN FwAfter(fw_mask, calls'[t][Len(calls'[t])].arg,
                 calls'[t][Len(calls'[t])].r)
    ELSE fw_mask

\* one host thread calling the functions one after the other; the content
\* of the firmware's memory is left out
Next == Step(1) /\ UNCHANGED fw_mask

Spec == Init /\ [][Next]_vars

\* one thread that decodes the events one after the other and asks for the
\* coordinates in between
NextCoords ==
  /\ DecodeStep(1) \/ QueryStep(1) \/ returned(1)
  /\ UNCHANGED fw_mask

SpecCoords == Init /\ [][NextCoords]_vars

\* thread 1 is the interrupt path, which decodes the events, and thread 2
\* the host, which asks for the coordinates at any moment
NextIrq ==
  /\ \/ DecodeStep(1)
     \/ returned(1)
     \/ QueryStep(2)
     \/ returned(2)
  /\ UNCHANGED fw_mask

SpecIrq == Init /\ [][NextIrq]_vars

\* the same host thread together with the firmware's gesture mask
NextFw == Step(1) /\ Firmware(1)

SpecFw == Init /\ [][NextFw]_vars

\* the buffers of a caller that sets or clears bit 0 of each of its bytes
BitArgs(s) == {NULL, Buf([k \in 0 .. (s - 1) |-> 1])}

\* thread 1 changes the mask and thread 2 enters the gesture mode and asks
\* whether a gesture is active, in any interleaving
WriterStep(t) ==
  \/ /\ pc[t] = "idle"
     /\ \E s \in Sizes : \E m \in BitArgs(s) :
          \/ \E e \in EnValues : updateGestureMask_call(t, m, s, e)
          \/ enableGesture_call(t, m, s)
          \/ disableGesture_call(t, m, s)
  \/ UpdateRun(t)
  \/ EnableRun(t)
  \/ DisableRun(t)

ReaderStep(t) ==
  \/ \E reload \in ReloadValues : enterGestureMode_call(t, reload)
  \/ EnterRun(t)
  \/ EnableRun(t)
  \/ isAnyGestureActive_call(t)
  \/ ActiveRun(t)

NextConc ==
  /\ \/ (WriterStep(1) \/ ReaderStep(2)) /\ UNCHANGED <<coords, coordFrame>>
     \/ returned(1)
     \/ returned(2)
  /\ UNCHANGED fw_mask

SpecConc == Init /\ [][NextConc]_vars

\* thread 1 makes one updateGestureMask call and thread 2 one
\* enterGestureMode call, in any interleaving
RaceStep ==
  \/ /\ pc[1] = "idle"
     /\ \E s \in Sizes : \E m \in MaskArgs(s) : \E e \in EnValues :
          updateGestureMask_call(1, m, s, e)
  \/ UpdateRun(1)
  \/ \E reload \in ReloadValues : enterGestureMode_call(2, reload)
  \/ EnterRun(2)
  \/ EnableRun(2)

NextRace == RaceStep /\ UNCHANGED <<coords, coordFrame, fw_mask>>

SpecRace == Init /\ [][NextRace]_vars

\* the builds of the driver: GESTURE_MASK_SIZE is a compile-time constant,
\* and one thread enables and disables gestures in each build
MaxBuildSize == 5
BuildSizes == 1 .. MaxBuildSize

InitBuilds == \E n \in BuildSizes : InitBuild(n)

BuildStep(t) ==
  \/ /\ pc[t] = "idle"
     /\ \E s \in 0 .. (MaskSize + 1) : \E m \in BitArgs(s) :
          \/ enableGesture_call(t, m, s)
          \/ disableGesture_call(t, m, s)
  \/ EnableRun(t)
  \/ DisableRun(t)

NextBuilds ==
  /\ \/ BuildStep(1) /\ UNCHANGED <<coords, coordFrame>>
     \/ returned(1)
  /\ UNCHANGED fw_mask

SpecBuilds == InitBuilds /\ [][NextBuilds]_vars

(* ======================= properties ================================= *)

\* bit k of x
Bit(x, k) == (x \div (2 ^ k)) % 2
BitIdx == 0 .. (ByteBits - 1)

\* positions in a call log of the calls of fn
CallsOf(log, fn) == { k \in 1 .. Len(log) : log[k].fn = fn }
Count(log, fn) == Cardinality(CallsOf(log, fn))
Failed(log, fn) == { k \in CallsOf(log, fn) : log[k].r < OK }

\* thread t is at the return of function o
AtReturn(t, o) == pc[t] = "done" /\ op[t] = o

\* thread t runs enterGestureMode and its fts_disableInterrupt has returned
DisableDone(t) == op[t] = "enterGestureMode" /\ Len(calls[t]) >= 1
DisableFailed(t) == DisableDone(t) /\ calls[t][1].r < OK
DisableSucceeded(t) == DisableDone(t) /\ calls[t][1].r >= OK

(* C1: in enterGestureMode, when fts_disableInterrupt fails the function   *)
(* has returned that error OR-ed with ERROR_DISABLE_INTER right away, and  *)
(* the execution holds no setFeatures, no setScanMode and no               *)
(* fts_enableInterrupt call.                                               *)
C1_DisableFailureShortCircuits ==
  \A t \in Threads :
    DisableFailed(t) =>
      /\ pc[t] = "done"
      /\ retval[t] = IntOr(calls[t][1].r, ERROR_DISABLE_INTER)
      /\ calls[t][1].fn = "fts_disableInterrupt"
      /\ Len(calls[t]) = 1
      /\ Count(calls[t], "setFeatures") = 0
      /\ Count(calls[t], "setScanMode") = 0
      /\ Count(calls[t], "fts_enableInterrupt") = 0

C1_Witness ==
  \E t \in Threads : DisableFailed(t) /\ AtReturn(t, "enterGestureMode")

(* C2: in every execution of enterGestureMode whose fts_disableInterrupt   *)
(* succeeded, fts_enableInterrupt has been called exactly once when the    *)
(* function returns (and never more than once before), whatever the mask   *)
(* push and the scan-mode command returned.                                *)
C2_EnableCalledOnce ==
  \A t \in Threads :
    DisableSucceeded(t) =>
      /\ Count(calls[t], "fts_enableInterrupt") <= 1
      /\ pc[t] = "done" =>
           /\ Count(calls[t], "fts_enableInterrupt") = 1
           /\ calls[t][Len(calls[t])].fn = "fts_enableInterrupt"

C2_Witness ==
  \E t \in Threads :
    /\ AtReturn(t, "enterGestureMode")
    /\ DisableSucceeded(t)
    /\ Failed(calls[t], "setFeatures") # {}
    /\ Count(calls[t], "fts_enableInterrupt") = 1

(* C3: when fts_disableInterrupt and fts_enableInterrupt both succeed and  *)
(* setScanMode fails, enterGestureMode returns exactly the setScanMode     *)
(* error and the interrupts are enabled at the return.                     *)
ScanFailedOnly(t) ==
  /\ AtReturn(t, "enterGestureMode")
  /\ DisableSucceeded(t)
  /\ Failed(calls[t], "setScanMode") # {}
  /\ Failed(calls[t], "fts_enableInterrupt") = {}

C3_ScanErrorReturnedAlone ==
  \A t \in Threads :
    ScanFailedOnly(t) =>
      /\ \A k \in Failed(calls[t], "setScanMode") : retval[t] = calls[t][k].r
      /\ irq_enabled

C3_Witness == \E t \in Threads : ScanFailedOnly(t)

(* C4: enterGestureMode returns OK exactly when every collaborator call it *)
(* made succeeded; when fts_enableInterrupt fails the value returned is    *)
(* the error remembered from the push or the scan-mode command (OK when    *)
(* there is none) OR-ed with the enable error and ERROR_ENABLE_INTER.      *)
Remembered(log) ==
  LET bad == Failed(log, "setFeatures") \cup Failed(log, "setScanMode")
  IN  IF bad = {} THEN OK ELSE log[CHOOSE k \in bad : TRUE].r

MaskOps == {"updateGestureMask", "enableGesture", "disableGesture"}

C5_FlagSetWhenMaskChanges ==
  \A t \in Threads :
    (pc[t] = "done" /\ op[t] \in MaskOps /\ ~mask[t].null
       /\ gesture_mask # pre[t])
      => refreshGestureMask = 1

(* C6: refreshGestureMask goes from 1 to 0 only in the step of             *)
(* enterGestureMode that follows a successful mask push (line 273); after  *)
(* a failed push enterGestureMode leaves the flag as it was; no other step *)
(* clears it.                                                              *)
ClearsAfterPush(t) ==
  /\ pc[t] = "egm_pushed"
  /\ op[t] = "enterGestureMode"
  /\ pc'[t] = "egm_scan"
  /\ Len(calls[t]) >= 1
  /\ calls[t][Len(calls[t])].fn = "setFeatures"
  /\ calls[t][Len(calls[t])].r >= OK

C6_FlagClearedOnlyAfterPush ==
  [][ /\ (refreshGestureMask = 1 /\ refreshGestureMask' = 0)
           => \E t \in Threads : ClearsAfterPush(t)
      /\ \A t \in Threads :
           (pc[t] = "egm_pushed" /\ pc'[t] # "egm_pushed" /\ res[t] < OK)
             => refreshGestureMask' = refreshGestureMask ]_vars

\* the flag was set, the push it caused succeeded, the flag is now clear
C6_Witness ==
  \E t \in Threads :
    /\ pc[t] = "egm_scan"
    /\ en[t] # 1
    /\ Count(calls[t], "setFeatures") = 1
    /\ Failed(calls[t], "setFeatures") = {}
    /\ refreshGestureMask = 0

(* C7: whenever no operation is running and refreshGestureMask is 0, the   *)
(* mask the firmware accepted last equals gesture_mask.                    *)
Quiescent == \A t \in Threads : pc[t] \in {"idle", "done"}

C7_ClearFlagMeansInSync ==
  (Quiescent /\ refreshGestureMask = 0) => fw_mask = gesture_mask

(* C8: updateGestureMask(D, size, FEAT_ENABLE) with D non-null and         *)
(* size <= GESTURE_MASK_SIZE returns OK; every bit of the first size bytes *)
(* of the mask is set exactly when it was set before or is set in D, and   *)
(* the bytes from size on are the bytes of before.                         *)
UpdateReturned(t, e) ==
  /\ AtReturn(t, "updateGestureMask")
  /\ ~mask[t].null
  /\ size[t] <= GESTURE_MASK_SIZE
  /\ en[t] = e

C10_ActiveIffNonZero ==
  \A t \in Threads :
    op[t] = "isAnyGestureActive" =>
      /\ i[t] \in Idx
      /\ pc[t] = "done" =>
           /\ retval[t] \in {FEAT_ENABLE, FEAT_DISABLE}
           /\ retval[t] = FEAT_DISABLE <=> \A k \in Idx : gesture_mask[k] = 0

\* the only non-zero byte is the last one
C10_Witness ==
  \E t \in Threads :
    /\ AtReturn(t, "isAnyGestureActive")
    /\ retval[t] = FEAT_ENABLE
    /\ gesture_mask[GESTURE_MASK_SIZE - 1] # 0
    /\ \A k \in Idx : k < GESTURE_MASK_SIZE - 1 => gesture_mask[k] = 0

(* ------------------------- C11 -------------------------------------- *)

DecodeReturned == AtReturn(1, "readGestureCoords")

\* C11: when readGestureCoords returns from an event whose tags do not match,
\* it returns ERROR_OP_NOT_ALLOW and gesture_coords_reported is the sentinel
\* ERROR_OP_NOT_ALLOW, whatever the calls before it did
C11_InvalidEventResetsCount ==
  (DecodeReturned /\ ~EventValid(event[1]))
    => /\ retval[1] = ERROR_OP_NOT_ALLOW
       /\ gesture_coords_reported = ERROR_OP_NOT_ALLOW

(* ------------------------- C12 -------------------------------------- *)

Min(a, b) == IF a < b THEN a ELSE b

\* the indices of val that iteration k of the loop reads when n pairs are
\* reported
ValReads(n, k) == {k * 2, k * 2 + 1, n * 2 + k * 2, n * 2 + k * 2 + 1}

\* the number of pairs a well-formed event may decode
PairsOf(ev) == Min(ev[5], GESTURE_MAX_COORDS_PAIRS_REPORT)

\* C12: for a well-formed event, whatever event[5] is, the frame buffer
\* read asks for min(event[5], GESTURE_MAX_COORDS_PAIRS_REPORT) * 4 bytes,
\* which fit in val; the loop runs for that many pairs, reads val only
\* below the length read and writes the X and Y arrays only inside them
C12_OverReportClamped ==
  (op[1] = "readGestureCoords" /\ EventValid(event[1]))
    => /\ \A k \in CallsOf(calls[1], "fts_writeReadU8UX") :
            /\ calls[1][k].arg[2] = ReadLength(PairsOf(event[1]))
            /\ calls[1][k].arg[2] <= GESTURE_MAX_COORDS_PAIRS_REPORT * 4
       /\ pc[1] = "rgc_loop"
            => /\ gesture_coords_reported = PairsOf(event[1])
               /\ DOMAIN val[1] = 0 .. (ReadLength(PairsOf(event[1])) - 1)
               /\ i[1] <= gesture_coords_reported
               /\ i[1] < gesture_coords_reported
                    => /\ i[1] \in PairIdx
                       /\ i[1] \in DOMAIN gesture_coordinates_x
                       /\ i[1] \in DOMAIN gesture_coordinates_y
                       /\ ValReads(gesture_coords_reported, i[1])
                            \subseteq DOMAIN val[1]
       /\ (pc[1] = "done" /\ retval[1] = OK)
            => gesture_coords_reported = PairsOf(event[1])

\* a well-formed event that reports five pairs too many has been decoded
C12_Witness ==
  /\ DecodeReturned
  /\ EventValid(event[1])
  /\ event[1][5] = GESTURE_MAX_COORDS_PAIRS_REPORT + 5
  /\ retval[1] = OK
  /\ gesture_coords_reported = GESTURE_MAX_COORDS_PAIRS_REPORT

(* ------------------------- C14 -------------------------------------- *)

\* the 12-bit value packed in the bytes lo and hi, by arithmetic: the low
\* nibble of hi above the eight bits of lo
Packed12(lo, hi) == lo + (hi % 16) * 256

\* a decode of a well-formed event has returned OK
DecodeSucceeded ==
  DecodeReturned /\ EventValid(event[1]) /\ retval[1] = OK

\* C14: a successful readGestureCoords on a well-formed event with clamped
\* count n has made one frame buffer read of n * 4 bytes at address
\* event[3] + 256 * event[4], has stored in X[i] and Y[i], for each i < n,
\* the 12-bit values packed at payload[2i], payload[2i + 1] and at
\* payload[2n + 2i], payload[2n + 2i + 1], has left the slots from n on as
\* they were, and gesture_coords_reported is n
C14_DecodeFormula ==
  DecodeSucceeded
    => LET n == PairsOf(event[1]) IN
       /\ gesture_coords_reported = n
       /\ Len(calls[1]) = 1
       /\ calls[1][1].fn = "fts_writeReadU8UX"
       /\ calls[1][1].arg = <<event[1][3] + 256 * event[1][4], n * 4>>
       /\ calls[1][1].arg[1] < 65536
       /\ DOMAIN val[1] = 0 .. (n * 4 - 1)
       /\ \A k \in PairIdx :
            IF k < n
            THEN /\ gesture_coordinates_x[k] =
                      Packed12(val[1][2 * k], val[1][2 * k + 1])
                 /\ gesture_coordinates_y[k] =
                      Packed12(val[1][2 * n + 2 * k], val[1][2 * n + 2 * k + 1])
            ELSE /\ gesture_coordinates_x[k] = pre_coords[1][1][k]
                 /\ gesture_coordinates_y[k] = pre_coords[1][2][k]

\* the bytes 0x34, 0x01 of an X slot have been decoded to 0x134, and a byte
\* with bits in its high nibble has been decoded too
C14_Witness ==
  /\ DecodeSucceeded
  /\ gesture_coords_reported = GESTURE_MAX_COORDS_PAIRS_REPORT
  /\ val[1][0] = 52 /\ val[1][1] = 1
  /\ gesture_coordinates_x[0] = 308
  /\ \E k \in DOMAIN val[1] : k % 2 = 1 /\ val[1][k] > 15
  /\ event[1][4] = 1 /\ event[1][3] = 16

(* ------------------------- C15 -------------------------------------- *)

\* the frame buffer read of a decode has failed and the decode has returned
ReadFailed ==
  /\ DecodeReturned
  /\ Failed(calls[1], "fts_writeReadU8UX") # {}

\* C15: when the frame buffer read fails, readGestureCoords returns the
\* error of the read, gesture_coords_reported is ERROR_OP_NOT_ALLOW at the
\* return, and the X and Y arrays are as they were at the call
C15_ReadFailureResetsCount ==
  ReadFailed
    => /\ retval[1] = calls[1][Len(calls[1])].r
       /\ gesture_coords_reported = ERROR_OP_NOT_ALLOW
       /\ gesture_coordinates_x = pre_coords[1][1]
       /\ gesture_coordinates_y = pre_coords[1][2]

\* a read has failed after an earlier decode had filled the arrays
C15_Witness ==
  /\ ReadFailed
  /\ gesture_coordinates_x # ZeroCoords
  /\ event[1][5] > 0

(* ------------------------- C13 -------------------------------------- *)

\* the values the count may have: the sentinel or a number of pairs that
\* the arrays can hold
CountValues ==
  {ERROR_OP_NOT_ALLOW} \cup (0 .. GESTURE_MAX_COORDS_PAIRS_REPORT)

\* C13: whenever the host calls getGestureCoords, also while the interrupt
\* path is inside readGestureCoords, the count it returns is
\* ERROR_OP_NOT_ALLOW or a value in 0 .. GESTURE_MAX_COORDS_PAIRS_REPORT
C13_CountWithinCapacity ==
  AtReturn(2, "getGestureCoords") => retval[2] \in CountValues

(* ------------------------- C16 -------------------------------------- *)

\* the positions between a mutex_lock and the mutex_unlock that follows it
LockedPcs ==
  {"ugm_loop", "ugm_unlock", "eg_loop", "eg_unlock", "dg_loop", "dg_unlock"}

\* the functions that take the mutex
LockingOps == {"updateGestureMask", "enableGesture", "disableGesture"}

\* C16: whenever updateGestureMask, enableGesture or disableGesture has
\* returned, by any exit path, the calling thread does not hold
\* gestureMask_mutex; a thread that holds it is between a mutex_lock and
\* its mutex_unlock, so a thread waiting for the mutex is waiting for a
\* thread that is on its way to release it
C16_MutexReleasedOnReturn ==
  \A t \in Threads :
    /\ (pc[t] = "done" /\ op[t] \in LockingOps) => gestureMask_mutex # t
    /\ pc[t] \in {"idle", "done"} => gestureMask_mutex # t
    /\ gestureMask_mutex = t => pc[t] \in LockedPcs
    /\ gestureMask_mutex \in {0} \cup Threads

\* enableGesture has returned the error of a failed setFeatures while the
\* other thread waits at a mutex_lock, and the mutex is free
C16_Witness ==
  /\ AtReturn(1, "enableGesture")
  /\ Failed(calls[1], "setFeatures") # {}
  /\ IsErr(retval[1])
  /\ pc[2] = "eg_lock"
  /\ gestureMask_mutex = 0

(* ------------------------- C17 -------------------------------------- *)

\* the positions whose next step reads gesture_mask or refreshGestureMask
\* in isAnyGestureActive (lines 307, 312) and in enterGestureMode (line 263)
ReaderPcs == {"iag_loop", "iag_test", "egm_test"}

\* thread u is inside the loop of a multi-byte update: some of the bytes of
\* its delta have been applied to gesture_mask and some have not
PartialUpdate(u) ==
  /\ pc[u] \in {"ugm_loop", "eg_loop", "dg_loop"}
  /\ ~mask[u].null
  /\ 0 < i[u]
  /\ i[u] < size[u]
  /\ gesture_mask # pre[u]

\* C17: the mask and the flag are only accessed under gestureMask_mutex, so
\* no thread is about to read them while another thread has applied only
\* some of the bytes of its update
C17_NoPartialUpdateVisible ==
  \A t \in Threads : \A u \in Threads \ {t} :
    pc[t] \in ReaderPcs => ~PartialUpdate(u)

(* ------------------------- C18 -------------------------------------- *)

\* disableGesture(NULL, size) with a valid size has returned
NullDisableReturned ==
  /\ AtReturn(1, "disableGesture")
  /\ mask[1].null
  /\ SizeValid(size[1])

AllZero(p) == \A k \in DOMAIN p : p[k] = 0

\* C18: in every build, disableGesture(NULL, size) with size <=
\* GESTURE_MASK_SIZE has handed setFeatures GESTURE_MASK_SIZE bytes that
\* are all zero and has left gesture_mask as it was
C18_NullDisableSendsZeros ==
  NullDisableReturned
    => /\ Len(calls[1]) = 1
       /\ calls[1][1].fn = "setFeatures"
       /\ DOMAIN calls[1][1].arg = 0 .. (MaskSize - 1)
       /\ AllZero(calls[1][1].arg)
       /\ gesture_mask = pre[1]

(* ------------------------- C19 -------------------------------------- *)

\* the positions of the mask push inside enterGestureMode, up to the test
\* of its result
PushPcs == {"eg_check", "eg_lock", "eg_loop", "eg_unlock", "egm_pushed"}

\* the positions of enterGestureMode after the push or its omission
AfterPushPcs == {"egm_scan", "egm_end", "done"}

\* C19: in an execution of enterGestureMode the mask is pushed exactly
\* when reload is 1 or refreshGestureMask is set; the push hands
\* gesture_mask to setFeatures and leaves it as it was; when the push
\* fails no setScanMode call is made, fts_enableInterrupt is called once,
\* and when that call succeeds the value returned is the error of the push
C19_PushIffNeeded ==
  op[1] = "enterGestureMode"
    => /\ pc[1] \in PushPcs => (en[1] = 1 \/ refreshGestureMask = 1)
       /\ (/\ pc[1] \in AfterPushPcs
           /\ DisableSucceeded(1)
           /\ Count(calls[1], "setFeatures") = 0)
            => ~(en[1] = 1 \/ refreshGestureMask = 1)
       /\ Count(calls[1], "setFeatures") <= 1
       /\ \A k \in CallsOf(calls[1], "setFeatures") :
            calls[1][k].arg = gesture_mask
       /\ gesture_mask = pre[1]
       /\ (pc[1] \in {"egm_end", "done"}
           /\ Failed(calls[1], "setFeatures") # {})
            => Count(calls[1], "setScanMode") = 0
       /\ (pc[1] = "done" /\ Failed(calls[1], "setFeatures") # {})
            => /\ Count(calls[1], "fts_enableInterrupt") = 1
               /\ Failed(calls[1], "fts_enableInterrupt") = {}
                    => \A k \in Failed(calls[1], "setFeatures") :
                         retval[1] = calls[1][k].r

\* enterGestureMode(0) has pushed a non-zero mask because the flag was set,
\* the push has failed, the interrupts have been enabled again and the
\* error of the push has been returned
C19_Witness ==
  /\ AtReturn(1, "enterGestureMode")
  /\ en[1] = 0
  /\ refreshGestureMask = 1
  /\ gesture_mask # ZeroMask
  /\ Failed(calls[1], "setFeatures") # {}
  /\ Count(calls[1], "fts_enableInterrupt") = 1
  /\ Failed(calls[1], "fts_enableInterrupt") = {}
  /\ IsErr(retval[1])

(* ------------------------- C20 -------------------------------------- *)

\* the updateGestureMask call of thread 1 and the enterGestureMode call of
\* thread 2 have both returned OK
BothReturnedOK ==
  /\ AtReturn(1, "updateGestureMask")
  /\ AtReturn(2, "enterGestureMode")
  /\ retval[1] = OK
  /\ retval[2] = OK

\* C20: when one updateGestureMask call and one enterGestureMode call have
\* run concurrently and both have returned OK, refreshGestureMask is set or
\* the mask that the mode entry handed to setFeatures is the updated mask
C20_NoLostUpdate ==
  BothReturnedOK
    => \/ refreshGestureMask = 1
       \/ \E k \in CallsOf(calls[2], "setFeatures") :
            calls[2][k].arg = gesture_mask

====
